---------------------------- MODULE Spec2Model ----------------------------
(***************************************************************************)
(* Model of the pure-Python EXIF GPS decoder of open_in_gimp.py:           *)
(* get_gps_coordinates (extension dispatch) and read_jpeg_exif_gps (JPEG    *)
(* segment scan, TIFF header, IFD0, GPS IFD, value resolution, D/M/S to     *)
(* signed decimal degrees).                                                 *)
(*                                                                          *)
(* A file is a sequence of bytes 0..255.  The cursor `pos` is f.tell().     *)
(* f.read(n) returns the bytes that exist (fewer than n at end of file);    *)
(* struct.unpack raises on a buffer of the wrong length; every exception    *)
(* raised inside the try block is caught by `except Exception`.             *)
(* A Python float is modelled as sign and exact magnitude [neg, num, den]   *)
(* (a reduced fraction): rounding is not modelled, the sign bit is.         *)
(***************************************************************************)
EXTENDS Integers, Sequences, FiniteSets, TLC

VARIABLES
    filepath,     \* the path handed to get_gps_coordinates (sequence of characters)
    file,         \* the bytes stored at that path
    readable,     \* whether open(filepath, 'rb') succeeds
    pc,           \* position in the code
    pos,          \* f.tell()
    endian,       \* "<" or ">" once the TIFF header is read
    tiff_start,   \* absolute position of the TIFF header
    ifd_offset,   \* offset of IFD0, relative to tiff_start
    num_entries,  \* iterations left of the loop of read_ifd_entries
    entries,      \* the dictionary read_ifd_entries is building
    ifd0,         \* parsed IFD0
    gps_offset,   \* offset of the GPS IFD
    gps_ifd,      \* parsed GPS IFD
    lat_data,     \* resolved bytes of tag 0x0002
    latitude,
    lon_data,     \* resolved bytes of tag 0x0004
    longitude,
    result,       \* what get_gps_coordinates gives its caller
    io,           \* observed file accesses: [opens, reads, seeks]
    eof,          \* labels of the reads that returned fewer bytes than asked
    gv,           \* the last call of get_value: arguments, result, cursor
    trace         \* the stages entered so far, in order

vars == <<filepath, file, readable, pc, pos, endian, tiff_start, ifd_offset,
          num_entries, entries, ifd0, gps_offset, gps_ifd, lat_data, latitude,
          lon_data, longitude, result, io, eof, gv, trace>>

-----------------------------------------------------------------------------
(* Bounds of the explored inputs *)

\* at most this many bytes are cut off the end of a generated file
MaxCut == 170
\* a skipped (non-APP1) segment carries 0..MaxPad payload bytes
MaxPad == 2
\* IFD0 holds 0..MaxExtra entries before the GPS pointer entry
MaxExtra == 1
\* files with leading segments are also tried cut down to 0..MaxHead bytes
MaxHead == 14

-----------------------------------------------------------------------------
(* Program constants *)

TAG_GPS_IFD == 34853
TAG_LAT_REF == 1
TAG_LAT == 2
TAG_LON_REF == 3
TAG_LON == 4

SOI == <<255, 216>>
APP1 == <<255, 225>>
EXIF_HEADER == <<69, 120, 105, 102, 0, 0>>
II == <<73, 73>>
MM == <<77, 77>>

-----------------------------------------------------------------------------
(* Bytes *)

Min(a, b) == IF a < b THEN a ELSE b

\* Python's data[a:b] for 0 <= a <= b
Slice(data, a, b) == SubSeq(data, a + 1, Min(b, Len(data)))

\* f.read(n) at cursor p: the bytes that exist in [p, p+n)
Read(f, p, n) == Slice(f, p, p + n)

\* struct.unpack(endian + 'H', b)[0] and struct.unpack('>H', b)[0], for Len(b) = 2
U16(e, b) == IF e = "<" THEN b[1] + 256 * b[2] ELSE 256 * b[1] + b[2]

\* struct.unpack(endian + 'I', b)[0], for Len(b) = 4
U32(e, b) ==
    IF e = "<" THEN b[1] + 256 * b[2] + 65536 * b[3] + 16777216 * b[4]
    ELSE 16777216 * b[1] + 65536 * b[2] + 256 * b[3] + b[4]


-----------------------------------------------------------------------------
(* Floats: sign and exact magnitude *)

RECURSIVE Gcd(_, _)
Gcd(a, b) ==
    IF b = 0 THEN a
    ELSE CHOOSE g \in {Gcd(y, r) : <<y, r>> \in {<<b, a % b>>}} : TRUE

\* the float of magnitude n/d (d > 0), in lowest terms
Float(isneg, n, d) ==
    LET Reduced(a, b, g) == [neg |-> isneg, num |-> a \div g, den |-> b \div g]
    IN CHOOSE x \in {Reduced(v[1], v[2], Gcd(v[1], v[2])) : v \in {<<n, d>>}} :
           TRUE

Zero == [neg |-> FALSE, num |-> 0, den |-> 1]

\* x + y for x, y >= 0
FAdd(x, y) == Float(FALSE, x.num * y.den + y.num * x.den, x.den * y.den)

\* x / k for x >= 0 and an integer k > 0
FDiv(x, k) == Float(x.neg, x.num, x.den * k)

\* -x
FNeg(x) == [x EXCEPT !.neg = ~x.neg]

-----------------------------------------------------------------------------
(* The helpers nested in read_jpeg_exif_gps *)

\* type_sizes.get(type_id, 1)
TypeSize(type_id) ==
    CASE type_id = 1 -> 1
      [] type_id = 2 -> 1
      [] type_id = 3 -> 2
      [] type_id = 4 -> 4
      [] type_id = 5 -> 8
      [] type_id = 7 -> 1
      [] type_id = 9 -> 4
      [] type_id = 10 -> 8
      [] OTHER -> 1

ValueSize(entry) == TypeSize(entry.type_id) * entry.count

\* get_value(type_id, count, value_offset) called with the cursor at p.
\* ok = FALSE: struct.unpack raised (the raw field is not 4 bytes long).
\* pos_after is the cursor when the call returns; short says that f.read
\* returned fewer than size bytes.
get_value(f, p, e, base, entry) ==
    LET size == ValueSize(entry) IN
    IF size <= 4 THEN
        [ok |-> TRUE, data |-> entry.raw, pos_after |-> p,
         reads |-> 0, seeks |-> 0, short |-> FALSE]
    ELSE IF Len(entry.raw) # 4 THEN
        [ok |-> FALSE, data |-> <<>>, pos_after |-> p,
         reads |-> 0, seeks |-> 0, short |-> FALSE]
    ELSE
        LET offset == U32(e, entry.raw)
            data == Read(f, base + offset, size)
        IN [ok |-> TRUE, data |-> data, pos_after |-> p,
            reads |-> 1, seeks |-> 2, short |-> Len(data) < size]

\* a read_rational that divides without testing the denominator:
\* ZeroDivisionError when it is 0
read_rational_NoZeroTest(e, data, offset) ==
    LET nb == Slice(data, offset, offset + 4)
        db == Slice(data, offset + 4, offset + 8)
    IN IF Len(nb) # 4 \/ Len(db) # 4 THEN [ok |-> FALSE, val |-> Zero]
       ELSE IF U32(e, db) = 0 THEN [ok |-> FALSE, val |-> Zero]
       ELSE [ok |-> TRUE, val |-> Float(FALSE, U32(e, nb), U32(e, db))]

\* read_rational(data, offset); data is always bytes here, so the
\* `else: return 0` branch of the isinstance test is never taken.
\* ok = FALSE: struct.unpack raised on a slice shorter than 4 bytes.
read_rational(e, data, offset) ==
    LET nb == Slice(data, offset, offset + 4)
        db == Slice(data, offset + 4, offset + 8)
    IN IF Len(nb) # 4 \/ Len(db) # 4 THEN [ok |-> FALSE, val |-> Zero]
       ELSE LET num == U32(e, nb)
                den == U32(e, db)
            IN [ok |-> TRUE,
                val |-> IF den # 0 THEN Float(FALSE, num, den) ELSE Zero]

\* read_gps_coord(data)
read_gps_coord(e, data) ==
    LET degrees == read_rational(e, data, 0)
        minutes == read_rational(e, data, 8)
        seconds == read_rational(e, data, 16)
    IN IF ~(degrees.ok /\ minutes.ok /\ seconds.ok)
       THEN [ok |-> FALSE, val |-> Zero]
       ELSE [ok |-> TRUE,
             val |-> FAdd(FAdd(degrees.val, FDiv(minutes.val, 60)),
                          FDiv(seconds.val, 3600))]

\* a test that forgets the lower-case 's'
IsSouth_UpperOnly(ref) == Slice(ref, 0, 1) = <<83>>

\* lat_ref[0:1] in (b'S', b's') and lon_ref[0:1] in (b'W', b'w')
IsSouth(ref) == Slice(ref, 0, 1) \in {<<83>>, <<115>>}
IsWest(ref) == Slice(ref, 0, 1) \in {<<87>>, <<119>>}

\* entries[tag] = (type_id, count, value_offset): a later entry of the same
\* tag replaces the earlier one
DictPut(d, tag, v) ==
    [t \in (DOMAIN d) \cup {tag} |-> IF t = tag THEN v ELSE d[t]]

EmptyDict == [t \in {} |-> 0]

-----------------------------------------------------------------------------
(* get_gps_coordinates: the extension of a path *)

\* str.lower() on the characters that occur in the explored paths
Lower(c) ==
    CASE c = "J" -> "j"
      [] c = "P" -> "p"
      [] c = "G" -> "g"
      [] c = "E" -> "e"
      [] OTHER -> c

LowerAll(s) == [i \in 1..Len(s) |-> Lower(s[i])]

\* largest index of character c in s, 0 when absent (str.rfind, 1-based)
RFind(s, c) ==
    LET I == {i \in 1..Len(s) : s[i] = c}
    IN IF I = {} THEN 0 ELSE CHOOSE i \in I : \A j \in I : j <= i

\* os.path.splitext(p)[1] (posixpath: the separator is "/"): the text from the
\* last dot of the last path component, unless only dots precede that dot
SplitExt(p) ==
    LET sepIndex == RFind(p, "/")
        dotIndex == RFind(p, ".")
    IN IF dotIndex > sepIndex
          /\ \E k \in (sepIndex + 1)..(dotIndex - 1) : p[k] # "."
       THEN SubSeq(p, dotIndex, Len(p))
       ELSE <<>>

JPG == <<".", "j", "p", "g">>
JPEG == <<".", "j", "p", "e", "g">>

\* a dispatch that also sends ".png" to the JPEG decoder
IsJpegExt_AlsoPng(ext) == ext \in {JPG, JPEG, <<".", "p", "n", "g">>}

\* ext in ('.jpg', '.jpeg')
IsJpegExt(ext) == ext \in {JPG, JPEG}

-----------------------------------------------------------------------------
(* The explored files: JPEG files built field by field, then cut short *)

Enc16(e, n) ==
    IF e = "<" THEN <<n % 256, n \div 256>> ELSE <<n \div 256, n % 256>>

Enc32(e, n) ==
    IF e = "<"
    THEN <<n % 256, (n \div 256) % 256, (n \div 65536) % 256, n \div 16777216>>
    ELSE <<n \div 16777216, (n \div 65536) % 256, (n \div 256) % 256, n % 256>>

RECURSIVE Flatten(_)
Flatten(ss) == IF ss = <<>> THEN <<>> ELSE Head(ss) \o Flatten(Tail(ss))

Zeros(n) == [i \in 1..n |-> 0]

\* one 12-byte IFD entry
EntryBytes(e, tag, type_id, count, raw) ==
    Enc16(e, tag) \o Enc16(e, type_id) \o Enc32(e, count) \o raw

\* an IFD: entry count, the entries, the offset of the next IFD (0)
IfdBytes(e, ents) == Enc16(e, Len(ents)) \o Flatten(ents) \o Enc32(e, 0)

\* three (or more) rationals
RationalBytes(e, rs) ==
    Flatten([i \in 1..Len(rs) |-> Enc32(e, rs[i][1]) \o Enc32(e, rs[i][2])])

\* the byte order a file is written in; mark "XX" is an invalid order mark
OrderOf(mark) == IF mark = "MM" THEN ">" ELSE "<"
MarkBytes(mark) == IF mark = "II" THEN II ELSE IF mark = "MM" THEN MM ELSE <<88, 88>>

\* The TIFF block of configuration c.  c.layout = "last": header, IFD0, GPS
\* IFD, then the value blocks; "first": header, value blocks, IFD0, GPS IFD.
TiffBytes(c) ==
    LET e == OrderOf(c.mark)
        latBlock == RationalBytes(e, c.lat \o [i \in 1..(c.latcount - 3) |-> <<0, 1>>])
        lonBlock == RationalBytes(e, c.lon)
        refLen == IF c.refmode = "offset" THEN 5 ELSE 0
        latRefBlock == IF refLen = 0 THEN <<>> ELSE <<c.latref>> \o Zeros(4)
        lonRefBlock == IF refLen = 0 THEN <<>> ELSE <<c.lonref>> \o Zeros(4)
        values == latBlock \o lonBlock \o latRefBlock \o lonRefBlock
        tags == SelectSeq(c.order, LAMBDA t : t \in c.gpstags)
        n0 == c.extra + (IF c.pointer THEN 1 ELSE 0)
        ifd0Len == 2 + 12 * n0 + 4
        gpsLen == 2 + 12 * Len(tags) + 4
        ifd0Off == IF c.layout = "last" THEN 8 ELSE 8 + Len(values)
        gpsOff == ifd0Off + ifd0Len
        valOff == IF c.layout = "last" THEN gpsOff + gpsLen ELSE 8
        latOff == valOff
        lonOff == latOff + Len(latBlock)
        latRefOff == lonOff + Len(lonBlock)
        lonRefOff == latRefOff + refLen
        RefEntry(tag, byte, off) ==
            IF refLen = 0 THEN EntryBytes(e, tag, 2, 2, <<byte, 0, 0, 0>>)
            ELSE EntryBytes(e, tag, 2, refLen, Enc32(e, off))
        GpsEntry(t) ==
            CASE t = TAG_LAT_REF -> RefEntry(t, c.latref, latRefOff)
              [] t = TAG_LAT -> EntryBytes(e, t, 5, c.latcount, Enc32(e, latOff))
              [] t = TAG_LON_REF -> RefEntry(t, c.lonref, lonRefOff)
              [] t = TAG_LON -> EntryBytes(e, t, 5, 3, Enc32(e, lonOff))
        ifd0Block == IfdBytes(e,
                  [i \in 1..n0 |->
                     IF i <= c.extra
                     THEN EntryBytes(e, 270 + i, 2, 2, <<65, 0, 0, 0>>)
                     ELSE EntryBytes(e, TAG_GPS_IFD, 4, 1, Enc32(e, gpsOff))])
        gpsBlock == IfdBytes(e, [i \in 1..Len(tags) |-> GpsEntry(tags[i])])
        header == MarkBytes(c.mark) \o Enc16(e, 42) \o Enc32(e, ifd0Off)
    IN IF c.layout = "last" THEN header \o ifd0Block \o gpsBlock \o values
       ELSE header \o values \o ifd0Block \o gpsBlock

\* the whole file of configuration c, its last c.cut bytes cut off
FileBytes(c) ==
    LET tiff == TiffBytes(c)
        full == SOI \o c.prefix \o APP1 \o Enc16(">", 2 + 6 + Len(tiff))
                    \o EXIF_HEADER \o tiff
    IN SubSeq(full, 1, IF c.cut >= Len(full) THEN 0 ELSE Len(full) - c.cut)

\* a segment the scanner skips: marker APP0, length field, payload
Segment(pad) == <<255, 224>> \o Enc16(">", 2 + pad) \o Zeros(pad)

Prefixes ==
    {<<>>}
    \cup {Segment(p) : p \in 0..MaxPad}
    \cup {Segment(0) \o Segment(p) : p \in 0..MaxPad}
    \cup {<<255, 224, 0, 0>>, <<255, 224, 0, 1>>,   \* length fields 0 and 1
          <<255, 224, 1, 0>>,                       \* length past the end of the file
          <<0, 16>>,                                \* not a marker
          APP1 \o Enc16(">", 8) \o <<74, 70, 73, 70, 0, 0>>}  \* APP1 that is not EXIF

\* degrees, minutes, seconds as (numerator, denominator)
Coords ==
    {<< <<40, 1>>, <<26, 1>>, <<46, 1>> >>,
     << <<73, 1>>, <<59, 1>>, <<2, 1>> >>,
     << <<40, 0>>, <<26, 1>>, <<46, 1>> >>,
     << <<7, 2>>, <<30, 0>>, <<15, 1>> >>,
     << <<1, 1>>, <<3, 2>>, <<5, 0>> >>,
     << <<0, 1>>, <<0, 1>>, <<0, 1>> >>}

GpsOrders == {<<1, 2, 3, 4>>, <<2, 4, 3, 1>>, <<4, 2, 1, 3>>}

\* 'N' 'S' 's' 'E' 'W' 'w' and NUL
RefBytes == {78, 83, 115, 69, 87, 119, 0}

Dflt ==
    [mark |-> "II", prefix |-> <<>>, layout |-> "last", extra |-> 0,
     pointer |-> TRUE, gpstags |-> {1, 2, 3, 4}, order |-> <<1, 2, 3, 4>>,
     latref |-> 78, lonref |-> 87, refmode |-> "inline", latcount |-> 3,
     lat |-> << <<40, 1>>, <<26, 1>>, <<46, 1>> >>,
     lon |-> << <<73, 1>>, <<59, 1>>, <<2, 1>> >>, cut |-> 0]

\* files cut at every length
CutFiles ==
    {FileBytes([Dflt EXCEPT !.mark = m, !.layout = l, !.refmode = r,
                            !.order = o, !.latcount = n, !.lonref = 119,
                            !.latref = 83, !.cut = k]) :
        m \in {"II", "MM"}, l \in {"last", "first"}, r \in {"inline", "offset"},
        o \in {<<1, 2, 3, 4>>, <<2, 4, 3, 1>>}, n \in {3, 4}, k \in 0..MaxCut}

\* every segment prefix, every order mark
ScanFiles ==
    {FileBytes([Dflt EXCEPT !.mark = m, !.prefix = p, !.cut = k]) :
        m \in {"II", "MM", "XX"}, p \in Prefixes, k \in {0, 1}}

\* the first bytes only: the file ends inside the segments
HeadFiles ==
    {SubSeq(FileBytes([Dflt EXCEPT !.prefix = p]), 1, n) :
        p \in Prefixes, n \in 0..MaxHead}

\* which tags the two IFDs hold
TagFiles ==
    {FileBytes([Dflt EXCEPT !.mark = m, !.extra = x, !.pointer = g,
                            !.gpstags = T, !.order = o, !.refmode = r]) :
        m \in {"II", "MM"}, x \in 0..MaxExtra, g \in BOOLEAN,
        T \in SUBSET {1, 2, 3, 4}, o \in GpsOrders, r \in {"inline", "offset"}}

\* the hemisphere references
RefFiles ==
    {FileBytes([Dflt EXCEPT !.mark = m, !.latref = a, !.lonref = b]) :
        m \in {"II", "MM"}, a \in RefBytes, b \in RefBytes}

\* the rationals, and latitude entries of fewer than three rationals
ValueFiles ==
    {FileBytes([Dflt EXCEPT !.mark = m, !.latref = 115, !.lat = x, !.lon = y,
                            !.latcount = n]) :
        m \in {"II", "MM"}, x \in Coords, y \in Coords, n \in {1, 3}}

\* files that are not JPEG at all
OtherFiles == {<<>>, <<255>>, <<137, 80, 78, 71>>, <<255, 217, 255, 225>>, <<216, 255>>}

\* an IFD0 that announces 65535 entries and holds two
CountFiles ==
    {SOI \o APP1 \o Enc16(">", 42) \o EXIF_HEADER
         \o MarkBytes(m) \o Enc16(OrderOf(m), 42) \o Enc32(OrderOf(m), 8)
         \o <<255, 255>>
         \o EntryBytes(OrderOf(m), 271, 2, 2, <<65, 0, 0, 0>>)
         \o EntryBytes(OrderOf(m), 272, 2, 2, <<66, 0, 0, 0>>) :
        m \in {"II", "MM"}}

Files == CutFiles \cup ScanFiles \cup HeadFiles \cup TagFiles \cup RefFiles \cup ValueFiles \cup OtherFiles
         \cup CountFiles

\* the explored paths; every file is tried under the first one
JpgPath == <<"a", ".", "j", "p", "g">>

Paths ==
    {JpgPath,
     <<"a", ".", "J", "P", "G">>,
     <<"a", ".", "j", "p", "e", "g">>,
     <<"a", ".", "J", "p", "E", "g">>,
     <<"d", "/", "a", ".", "j", "p", "g">>,
     <<"a", ".", "p", "n", "g", ".", "j", "p", "g">>,
     <<"a", ".", "p", "n", "g">>,
     <<"a", ".", "h", "e", "i", "c">>,
     <<"a", ".", "j", "p", "g", ".", "p", "n", "g">>,
     <<"a", ".", "j", "p", "g", "x">>,
     <<"a", ".", "j", "p">>,
     <<"a", "j", "p", "g">>,
     <<"a">>,
     <<".", "j", "p", "g">>,
     <<"d", "/", ".", "j", "p", "e", "g">>,
     <<"d", ".", "j", "p", "g", "/", "a">>,
     <<"a", ".">>,
     <<>>}

-----------------------------------------------------------------------------
(* Results, stages, and the order of the statements *)

None == [kind |-> "None"]
Pending == [kind |-> "pending"]
Raised == [kind |-> "raised"]
Pair(la, lo) == [kind |-> "pair", lat |-> la, lon |-> lo]

NoCall ==
    [called |-> FALSE, ok |-> FALSE, tag |-> 0, type_id |-> 0, count |-> 0,
     raw |-> <<>>, data |-> <<>>, pos_before |-> 0, pos_after |-> 0]

\* a statement order that goes from the latitude straight to the longitude,
\* leaving out the latitude reference
Following_NoLatRef(l) ==
    CASE l = "call" -> "open"
      [] l = "open" -> "soi"
      [] l = "soi" -> "scan"
      [] l = "scan" -> "app1"
      [] l = "app1" -> "tiff"
      [] l = "tiff" -> "ifd0"
      [] l = "ifd0" -> "ifd0_loop"
      [] l = "ifd0_loop" -> "gps_ptr"
      [] l = "gps_ptr" -> "gps"
      [] l = "gps" -> "gps_loop"
      [] l = "gps_loop" -> "req"
      [] l = "req" -> "lat"
      [] l = "lat" -> "lat_coord"
      [] l = "lat_coord" -> "lon"
      [] l = "lat_ref" -> "lon"
      [] l = "lon" -> "lon_coord"
      [] l = "lon_coord" -> "lon_ref"
      [] l = "lon_ref" -> "ret"
      [] OTHER -> "done"

\* the statement that follows statement l when l completes without
\* returning or raising (a loop's label: the statement after the loop)
Following(l) ==
    CASE l = "call" -> "open"
      [] l = "open" -> "soi"
      [] l = "soi" -> "scan"
      [] l = "scan" -> "app1"
      [] l = "app1" -> "tiff"
      [] l = "tiff" -> "ifd0"
      [] l = "ifd0" -> "ifd0_loop"
      [] l = "ifd0_loop" -> "gps_ptr"
      [] l = "gps_ptr" -> "gps"
      [] l = "gps" -> "gps_loop"
      [] l = "gps_loop" -> "req"
      [] l = "req" -> "lat"
      [] l = "lat" -> "lat_coord"
      [] l = "lat_coord" -> "lat_ref"
      [] l = "lat_ref" -> "lon"
      [] l = "lon" -> "lon_coord"
      [] l = "lon_coord" -> "lon_ref"
      [] l = "lon_ref" -> "ret"
      [] OTHER -> "done"

\* the stage of the decode a statement belongs to
StageOf(l) ==
    CASE l \in {"open", "soi"} -> "SEEK_SOI"
      [] l = "scan" -> "SEEK_APP1"
      [] l \in {"app1", "tiff"} -> "PARSE_TIFF"
      [] l \in {"ifd0", "ifd0_loop"} -> "PARSE_IFD0"
      [] l = "gps_ptr" -> "LOCATE_GPS_POINTER"
      [] l \in {"gps", "gps_loop", "req"} -> "PARSE_GPS_IFD"
      [] l = "lat" -> "RESOLVE_LAT"
      [] l = "lat_coord" -> "COMPUTE_LAT"
      [] l = "lat_ref" -> "RESOLVE_LAT_REF"
      [] l = "lon" -> "RESOLVE_LON"
      [] l = "lon_coord" -> "COMPUTE_LON"
      [] l = "lon_ref" -> "RESOLVE_LON_REF"
      [] l = "ret" -> "DONE"
      [] OTHER -> "FAIL"

\* the trace once stage s is entered (staying in a stage adds nothing)
Enter(tr, s) == IF tr # <<>> /\ tr[Len(tr)] = s THEN tr ELSE Append(tr, s)

\* an except clause that lets the exception through to the caller
HandlerResult_Reraise == Raised

\* what the except clause gives the caller: it returns None
HandlerResult == None

\* the statement completes: go on with the next one
Go ==
    /\ pc' = Following(pc)
    /\ trace' = Enter(trace, StageOf(pc))
    /\ result' = result

\* the loop goes round once more
Again ==
    /\ pc' = pc
    /\ trace' = Enter(trace, StageOf(pc))
    /\ result' = result

\* the statement raises: control passes to the except clause
Raise ==
    /\ pc' = "except"
    /\ trace' = Enter(trace, StageOf(pc))
    /\ result' = result

\* `return None` inside the try block
ReturnNone ==
    /\ pc' = "done"
    /\ trace' = Enter(Enter(trace, StageOf(pc)), "FAIL")
    /\ result' = None

\* n more reads and m more seeks, the reads labelled L having come up short
Io(n, m, L) ==
    /\ io' = [io EXCEPT !.reads = @ + n, !.seeks = @ + m]
    /\ eof' = eof \cup L

-----------------------------------------------------------------------------
(* Initial states *)

Init ==
    /\ \E P \in {<<JpgPath, f, TRUE>> : f \in Files}
              \cup {<<q, FileBytes(Dflt), r>> : q \in Paths, r \in BOOLEAN} :
          /\ filepath = P[1]
          /\ file = P[2]
          /\ readable = P[3]
    /\ pc = "call"
    /\ pos = 0
    /\ endian = ""
    /\ tiff_start = 0
    /\ ifd_offset = 0
    /\ num_entries = 0
    /\ entries = EmptyDict
    /\ ifd0 = EmptyDict
    /\ gps_offset = 0
    /\ gps_ifd = EmptyDict
    /\ lat_data = <<>>
    /\ latitude = Zero
    /\ lon_data = <<>>
    /\ longitude = Zero
    /\ result = Pending
    /\ io = [opens |-> 0, reads |-> 0, seeks |-> 0]
    /\ eof = {}
    /\ gv = NoCall
    /\ trace = <<>>

-----------------------------------------------------------------------------
(* get_gps_coordinates *)

\* lines 193-200: only a ".jpg" or ".jpeg" extension reaches the decoder
GetGpsCoordinates ==
    /\ pc = "call"
    /\ IF IsJpegExt(LowerAll(SplitExt(filepath)))
       THEN /\ pc' = Following(pc)
            /\ result' = result
       ELSE /\ pc' = "done"
            /\ result' = None
    /\ UNCHANGED <<filepath, file, readable, pos, endian, tiff_start,
                   ifd_offset, num_entries, entries, ifd0, gps_offset, gps_ifd,
                   lat_data, latitude, lon_data, longitude, io, eof, gv, trace>>

-----------------------------------------------------------------------------
(* read_jpeg_exif_gps *)

\* a magic test that looks at the first byte only
IsSOI_FirstByte(b) == Len(b) >= 1 /\ b[1] = 255

\* f.read(2) != b'\xff\xd8'
IsSOI(b) == b = SOI

\* a skip that forgets that the length counts its own two bytes
SkipTarget_Whole(p, length) == p + length

\* a seek without whence = 1: f.seek(length - 2), from the start of the file
SkipTarget_Absolute(p, length) == length - 2

\* the cursor after f.seek(length - 2, 1) at cursor p
SkipTarget(p, length) == p + (length - 2)

\* 0x8825 not in ifd0
HasPointer(d) == TAG_GPS_IFD \in DOMAIN d

\* a test that asks for the latitude only
HasRequired_LatOnly(d) == TAG_LAT \in DOMAIN d

\* 0x0002 not in gps_ifd or 0x0004 not in gps_ifd
HasRequired(d) == TAG_LAT \in DOMAIN d /\ TAG_LON \in DOMAIN d

\* line 52: open(filepath, 'rb'); a file that cannot be opened raises
OpenFile ==
    /\ pc = "open"
    /\ io' = [io EXCEPT !.opens = @ + 1]
    /\ pos' = 0
    /\ IF readable THEN Go ELSE Raise
    /\ UNCHANGED <<filepath, file, readable, endian, tiff_start, ifd_offset,
                   num_entries, entries, ifd0, gps_offset, gps_ifd, lat_data,
                   latitude, lon_data, longitude, eof, gv>>

\* lines 54-55: the JPEG magic bytes
CheckSOI ==
    /\ pc = "soi"
    /\ LET magic == Read(file, pos, 2) IN
         /\ pos' = pos + Len(magic)
         /\ Io(1, 0, IF Len(magic) < 2 THEN {"soi"} ELSE {})
         /\ IF IsSOI(magic) THEN Go ELSE ReturnNone
    /\ UNCHANGED <<filepath, file, readable, endian, tiff_start, ifd_offset,
                   num_entries, entries, ifd0, gps_offset, gps_ifd, lat_data,
                   latitude, lon_data, longitude, gv>>

\* lines 58-70: one iteration of the loop that looks for the APP1 marker
ScanMarker ==
    /\ pc = "scan"
    /\ LET marker == Read(file, pos, 2)
           p1 == pos + Len(marker)
           lb == Read(file, p1, 2)
           p2 == p1 + Len(lb)
       IN IF Len(marker) < 2 THEN
              /\ pos' = p1
              /\ Io(1, 0, {"marker"})
              /\ ReturnNone
          ELSE IF marker = APP1 THEN
              /\ pos' = p1
              /\ Io(1, 0, {})
              /\ Go
          ELSE IF marker[1] # 255 THEN
              /\ pos' = p1
              /\ Io(1, 0, {})
              /\ ReturnNone
          ELSE IF Len(lb) # 2 THEN
              /\ pos' = p2
              /\ Io(2, 0, {"marker_length"})
              /\ Raise
          ELSE IF SkipTarget(p2, U16(">", lb)) < 0 THEN
              /\ pos' = p2
              /\ Io(2, 1, {})
              /\ Raise
          ELSE
              /\ pos' = SkipTarget(p2, U16(">", lb))
              /\ Io(2, 1, {})
              /\ Again
    /\ UNCHANGED <<filepath, file, readable, endian, tiff_start, ifd_offset,
                   num_entries, entries, ifd0, gps_offset, gps_ifd, lat_data,
                   latitude, lon_data, longitude, gv>>

\* lines 73-77: the APP1 length and the EXIF header
ReadExifHeader ==
    /\ pc = "app1"
    /\ LET lb == Read(file, pos, 2)
           p1 == pos + Len(lb)
           exif_header == Read(file, p1, 6)
           p2 == p1 + Len(exif_header)
       IN IF Len(lb) # 2 THEN
              /\ pos' = p1
              /\ Io(1, 0, {"app1_length"})
              /\ Raise
          ELSE
              /\ pos' = p2
              /\ Io(2, 0, IF Len(exif_header) < 6 THEN {"exif_header"} ELSE {})
              /\ IF exif_header # EXIF_HEADER THEN ReturnNone ELSE Go
    /\ UNCHANGED <<filepath, file, readable, endian, tiff_start, ifd_offset,
                   num_entries, entries, ifd0, gps_offset, gps_ifd, lat_data,
                   latitude, lon_data, longitude, gv>>

\* lines 80-92: the TIFF header: byte order and the offset of IFD0
ReadTiffHeader ==
    /\ pc = "tiff"
    /\ LET tiff_header == Read(file, pos, 8)
           order == Slice(tiff_header, 0, 2)
           ob == Slice(tiff_header, 4, 8)
           e == IF order = II THEN "<" ELSE ">"
       IN /\ pos' = pos + Len(tiff_header)
          /\ tiff_start' = pos
          /\ Io(1, 0, IF Len(tiff_header) < 8 THEN {"tiff_header"} ELSE {})
          /\ IF order # II /\ order # MM THEN
                 /\ UNCHANGED <<endian, ifd_offset>>
                 /\ ReturnNone
             ELSE IF Len(ob) # 4 THEN
                 /\ endian' = e
                 /\ UNCHANGED ifd_offset
                 /\ Raise
             ELSE
                 /\ endian' = e
                 /\ ifd_offset' = U32(e, ob)
                 /\ Go
    /\ UNCHANGED <<filepath, file, readable, num_entries, entries, ifd0,
                   gps_offset, gps_ifd, lat_data, latitude, lon_data,
                   longitude, gv>>

\* lines 96-98 of read_ifd_entries(offset): seek to the IFD, read the count
read_ifd_entries_begin(offset) ==
    LET nb == Read(file, tiff_start + offset, 2) IN
    /\ pos' = tiff_start + offset + Len(nb)
    /\ IF Len(nb) # 2 THEN
           /\ Io(1, 1, {"ifd_count"})
           /\ UNCHANGED <<num_entries, entries>>
           /\ Raise
       ELSE
           /\ Io(1, 1, {})
           /\ num_entries' = U16(endian, nb)
           /\ entries' = EmptyDict
           /\ Go

\* lines 100-106 of read_ifd_entries: one iteration of the loop over the
\* entries; only tag, type and count are unpacked, the value field is kept
\* as the bytes that were read
read_ifd_entries_step ==
    LET tb == Read(file, pos, 2)
        p1 == pos + Len(tb)
        yb == Read(file, p1, 2)
        p2 == p1 + Len(yb)
        cb == Read(file, p2, 4)
        p3 == p2 + Len(cb)
        value_offset == Read(file, p3, 4)
        p4 == p3 + Len(value_offset)
    IN IF Len(tb) # 2 THEN
           /\ pos' = p1
           /\ Io(1, 0, {"ifd_tag"})
           /\ UNCHANGED <<num_entries, entries>>
           /\ Raise
       ELSE IF Len(yb) # 2 THEN
           /\ pos' = p2
           /\ Io(2, 0, {"ifd_type"})
           /\ UNCHANGED <<num_entries, entries>>
           /\ Raise
       ELSE IF Len(cb) # 4 THEN
           /\ pos' = p3
           /\ Io(3, 0, {"ifd_entry_count"})
           /\ UNCHANGED <<num_entries, entries>>
           /\ Raise
       ELSE
           /\ pos' = p4
           /\ Io(4, 0, IF Len(value_offset) < 4 THEN {"ifd_value"} ELSE {})
           /\ num_entries' = num_entries - 1
           /\ entries' = DictPut(entries, U16(endian, tb),
                                 [type_id |-> U16(endian, yb),
                                  count |-> U32(endian, cb),
                                  raw |-> value_offset])
           /\ Again

\* line 143, first part: ifd0 = read_ifd_entries(ifd_offset)
ReadIFD0Begin ==
    /\ pc = "ifd0"
    /\ read_ifd_entries_begin(ifd_offset)
    /\ UNCHANGED <<filepath, file, readable, endian, tiff_start, ifd_offset,
                   ifd0, gps_offset, gps_ifd, lat_data, latitude, lon_data,
                   longitude, gv>>

\* line 143, the loop, and the return of the dictionary at line 108
ReadIFD0Entry ==
    /\ pc = "ifd0_loop"
    /\ IF num_entries = 0 THEN
           /\ ifd0' = entries
           /\ UNCHANGED <<pos, io, eof, num_entries, entries>>
           /\ Go
       ELSE
           /\ ifd0' = ifd0
           /\ read_ifd_entries_step
    /\ UNCHANGED <<filepath, file, readable, endian, tiff_start, ifd_offset,
                   gps_offset, gps_ifd, lat_data, latitude, lon_data,
                   longitude, gv>>

\* lines 146-149: the GPS IFD pointer
LocateGpsPointer ==
    /\ pc = "gps_ptr"
    /\ IF ~HasPointer(ifd0) THEN
           /\ UNCHANGED gps_offset
           /\ ReturnNone
       ELSE IF Len(ifd0[TAG_GPS_IFD].raw) # 4 THEN
           /\ UNCHANGED gps_offset
           /\ Raise
       ELSE
           /\ gps_offset' = U32(endian, ifd0[TAG_GPS_IFD].raw)
           /\ Go
    /\ UNCHANGED <<filepath, file, readable, pos, endian, tiff_start,
                   ifd_offset, num_entries, entries, ifd0, gps_ifd, lat_data,
                   latitude, lon_data, longitude, io, eof, gv>>

\* line 152, first part: gps_ifd = read_ifd_entries(gps_offset)
ReadGpsIFDBegin ==
    /\ pc = "gps"
    /\ read_ifd_entries_begin(gps_offset)
    /\ UNCHANGED <<filepath, file, readable, endian, tiff_start, ifd_offset,
                   ifd0, gps_offset, gps_ifd, lat_data, latitude, lon_data,
                   longitude, gv>>

\* line 152, the loop, and the return of the dictionary at line 108
ReadGpsIFDEntry ==
    /\ pc = "gps_loop"
    /\ IF num_entries = 0 THEN
           /\ gps_ifd' = entries
           /\ UNCHANGED <<pos, io, eof, num_entries, entries>>
           /\ Go
       ELSE
           /\ gps_ifd' = gps_ifd
           /\ read_ifd_entries_step
    /\ UNCHANGED <<filepath, file, readable, endian, tiff_start, ifd_offset,
                   ifd0, gps_offset, lat_data, latitude, lon_data, longitude,
                   gv>>

\* lines 160-161: latitude and longitude must both be there
CheckRequiredTags ==
    /\ pc = "req"
    /\ IF HasRequired(gps_ifd) THEN Go ELSE ReturnNone
    /\ UNCHANGED <<filepath, file, readable, pos, endian, tiff_start,
                   ifd_offset, num_entries, entries, ifd0, gps_offset, gps_ifd,
                   lat_data, latitude, lon_data, longitude, io, eof, gv>>

\* what a call get_value(*gps_ifd[tag]) at cursor p did
CallOf(tag, p, r) ==
    [called |-> TRUE, ok |-> r.ok, tag |-> tag,
     type_id |-> gps_ifd[tag].type_id, count |-> gps_ifd[tag].count,
     raw |-> gps_ifd[tag].raw, data |-> r.data,
     pos_before |-> p, pos_after |-> r.pos_after]

\* get_value(*gps_ifd[tag]) as part of a statement; the read is labelled lbl
CallGetValue(tag, lbl) ==
    LET r == get_value(file, pos, endian, tiff_start, gps_ifd[tag]) IN
    /\ gv' = CallOf(tag, pos, r)
    /\ pos' = r.pos_after
    /\ Io(r.reads, r.seeks, IF r.short THEN {lbl} ELSE {})

\* line 164: lat_data = get_value(*gps_ifd[0x0002])
ResolveLat ==
    /\ pc = "lat"
    /\ IF TAG_LAT \notin DOMAIN gps_ifd THEN
           /\ UNCHANGED <<gv, pos, io, eof, lat_data>>
           /\ Raise
       ELSE
           /\ CallGetValue(TAG_LAT, "lat_value")
           /\ IF gv'.ok
              THEN lat_data' = gv'.data /\ Go
              ELSE lat_data' = lat_data /\ Raise
    /\ UNCHANGED <<filepath, file, readable, endian, tiff_start, ifd_offset,
                   num_entries, entries, ifd0, gps_offset, gps_ifd, latitude,
                   lon_data, longitude>>

\* line 165: latitude = read_gps_coord(lat_data)
ComputeLat ==
    /\ pc = "lat_coord"
    /\ LET c == read_gps_coord(endian, lat_data) IN
         IF c.ok THEN latitude' = c.val /\ Go
         ELSE latitude' = latitude /\ Raise
    /\ UNCHANGED <<filepath, file, readable, pos, endian, tiff_start,
                   ifd_offset, num_entries, entries, ifd0, gps_offset, gps_ifd,
                   lat_data, lon_data, longitude, io, eof, gv>>

\* lines 168-171: the latitude reference, when the GPS IFD has one
ResolveLatRef ==
    /\ pc = "lat_ref"
    /\ IF TAG_LAT_REF \notin DOMAIN gps_ifd THEN
           /\ UNCHANGED <<gv, pos, io, eof, latitude, trace, result>>
           /\ pc' = Following(pc)
       ELSE
           /\ CallGetValue(TAG_LAT_REF, "lat_ref_value")
           /\ IF ~gv'.ok THEN latitude' = latitude /\ Raise
              ELSE /\ latitude' = IF IsSouth(gv'.data) THEN FNeg(latitude)
                                  ELSE latitude
                   /\ Go
    /\ UNCHANGED <<filepath, file, readable, endian, tiff_start, ifd_offset,
                   num_entries, entries, ifd0, gps_offset, gps_ifd, lat_data,
                   lon_data, longitude>>

\* line 174: lon_data = get_value(*gps_ifd[0x0004])
ResolveLon ==
    /\ pc = "lon"
    /\ IF TAG_LON \notin DOMAIN gps_ifd THEN
           /\ UNCHANGED <<gv, pos, io, eof, lon_data>>
           /\ Raise
       ELSE
           /\ CallGetValue(TAG_LON, "lon_value")
           /\ IF gv'.ok
              THEN lon_data' = gv'.data /\ Go
              ELSE lon_data' = lon_data /\ Raise
    /\ UNCHANGED <<filepath, file, readable, endian, tiff_start, ifd_offset,
                   num_entries, entries, ifd0, gps_offset, gps_ifd, lat_data,
                   latitude, longitude>>

\* line 175: longitude = read_gps_coord(lon_data)
ComputeLon ==
    /\ pc = "lon_coord"
    /\ LET c == read_gps_coord(endian, lon_data) IN
         IF c.ok THEN longitude' = c.val /\ Go
         ELSE longitude' = longitude /\ Raise
    /\ UNCHANGED <<filepath, file, readable, pos, endian, tiff_start,
                   ifd_offset, num_entries, entries, ifd0, gps_offset, gps_ifd,
                   lat_data, latitude, lon_data, io, eof, gv>>

\* lines 178-181: the longitude reference, when the GPS IFD has one
ResolveLonRef ==
    /\ pc = "lon_ref"
    /\ IF TAG_LON_REF \notin DOMAIN gps_ifd THEN
           /\ UNCHANGED <<gv, pos, io, eof, longitude, trace, result>>
           /\ pc' = Following(pc)
       ELSE
           /\ CallGetValue(TAG_LON_REF, "lon_ref_value")
           /\ IF ~gv'.ok THEN longitude' = longitude /\ Raise
              ELSE /\ longitude' = IF IsWest(gv'.data) THEN FNeg(longitude)
                                   ELSE longitude
                   /\ Go
    /\ UNCHANGED <<filepath, file, readable, endian, tiff_start, ifd_offset,
                   num_entries, entries, ifd0, gps_offset, gps_ifd, lat_data,
                   latitude, lon_data>>

\* line 183: return (latitude, longitude)
ReturnPair ==
    /\ pc = "ret"
    /\ pc' = "done"
    /\ trace' = Enter(trace, StageOf(pc))
    /\ result' = Pair(latitude, longitude)
    /\ UNCHANGED <<filepath, file, readable, pos, endian, tiff_start,
                   ifd_offset, num_entries, entries, ifd0, gps_offset, gps_ifd,
                   lat_data, latitude, lon_data, longitude, io, eof, gv>>

\* lines 185-187: except Exception: print the error, return None
HandleException ==
    /\ pc = "except"
    /\ pc' = "done"
    /\ trace' = Enter(trace, StageOf(pc))
    /\ result' = HandlerResult
    /\ UNCHANGED <<filepath, file, readable, pos, endian, tiff_start,
                   ifd_offset, num_entries, entries, ifd0, gps_offset, gps_ifd,
                   lat_data, latitude, lon_data, longitude, io, eof, gv>>

Next ==
    \/ GetGpsCoordinates
    \/ OpenFile
    \/ CheckSOI
    \/ ScanMarker
    \/ ReadExifHeader
    \/ ReadTiffHeader
    \/ ReadIFD0Begin
    \/ ReadIFD0Entry
    \/ LocateGpsPointer
    \/ ReadGpsIFDBegin
    \/ ReadGpsIFDEntry
    \/ CheckRequiredTags
    \/ ResolveLat
    \/ ComputeLat
    \/ ResolveLatRef
    \/ ResolveLon
    \/ ComputeLon
    \/ ResolveLonRef
    \/ ReturnPair
    \/ HandleException

Spec == Init /\ [][Next]_vars

\* The call is synchronous and single-threaded: as long as a statement
\* remains to be executed, it is executed.
FairSpec == Spec /\ WF_vars(Next)

-----------------------------------------------------------------------------
(* Properties *)

InTrace(s) == \E i \in 1..Len(trace) : trace[i] = s

LastStage == IF trace = <<>> THEN "" ELSE trace[Len(trace)]

TruncationLabels ==
    {"marker_length", "app1_length", "ifd_tag", "ifd_type", "ifd_entry_count",
     "ifd_value", "lat_value", "lat_ref_value", "lon_value", "lon_ref_value"}

\* C2: whenever the end of the file is reached while reading a marker length,
\* any part of an IFD entry (tag, type, count, 4-byte value field) or a value
\* block referenced by offset, the result is None.
C2_TruncatedYieldsNone ==
    (pc = "done" /\ eof \cap TruncationLabels # {}) => result = None

\* the value get_value gives for the entry of tag t of the GPS IFD
Resolved(t) == get_value(file, pos, endian, tiff_start, gps_ifd[t]).data

FirstByteIn(b, S) == Len(b) >= 1 /\ b[1] \in S

\* C3: on a successful decode the latitude is the D/M/S magnitude of the
\* latitude value, negative exactly when tag 0x0001 is present and the first
\* byte of its resolved value is 'S' or 's'; the longitude is the magnitude of
\* the longitude value, negative exactly when tag 0x0003 is present and the
\* first byte of its resolved value is 'W' or 'w'.  Any other byte, or no
\* reference tag, leaves the coordinate positive; neither reference touches
\* the other coordinate.
C3_HemisphereSign ==
    (pc = "done" /\ result.kind = "pair") =>
        LET latMag == read_gps_coord(endian, Resolved(2)).val
            lonMag == read_gps_coord(endian, Resolved(4)).val
            south == 1 \in DOMAIN gps_ifd /\ FirstByteIn(Resolved(1), {83, 115})
            west == 3 \in DOMAIN gps_ifd /\ FirstByteIn(Resolved(3), {87, 119})
        IN /\ result.lat = [neg |-> south, num |-> latMag.num, den |-> latMag.den]
           /\ result.lon = [neg |-> west, num |-> lonMag.num, den |-> lonMag.den]

\* C3 witness: latitude negated by 's', longitude left positive by a
\* reference that is not 'W' or 'w'
C3_Witness ==
    /\ pc = "done"
    /\ result.kind = "pair"
    /\ 1 \in DOMAIN gps_ifd /\ FirstByteIn(Resolved(1), {115})
    /\ 3 \in DOMAIN gps_ifd /\ FirstByteIn(Resolved(3), {69})
    /\ result.lat.neg /\ ~result.lon.neg
    /\ result.lat.num > 0

ResolveStages ==
    {"RESOLVE_LAT", "COMPUTE_LAT", "RESOLVE_LAT_REF",
     "RESOLVE_LON", "COMPUTE_LON", "RESOLVE_LON_REF"}

\* C4: when the parsed IFD0 has no entry 0x8825 the GPS IFD is never read and
\* the result is None; when the parsed GPS IFD lacks 0x0002 or 0x0004 no value
\* is resolved and the result is None, whatever other tags are present.
C4_RequiredTags ==
    /\ 34853 \notin DOMAIN ifd0 =>
          /\ ~InTrace("PARSE_GPS_IFD")
          /\ pc \notin {"gps", "gps_loop", "req"}
          /\ gps_ifd = EmptyDict
          /\ pc = "done" => result = None
    /\ (2 \notin DOMAIN gps_ifd \/ 4 \notin DOMAIN gps_ifd) =>
          /\ ~gv.called
          /\ \A s \in ResolveStages : ~InTrace(s)
          /\ pc = "done" => result = None

\* C4 witness: a GPS IFD with both references and the latitude but no
\* longitude was parsed, and the run ended with None
C4_Witness ==
    /\ pc = "done"
    /\ DOMAIN gps_ifd = {1, 2, 3}
    /\ result = None
    /\ LastStage = "FAIL"

\* numerator and denominator of the i-th rational of a value block
NumAt(data, i) == U32(endian, SubSeq(data, 8 * i - 7, 8 * i - 4))
DenAt(data, i) == U32(endian, SubSeq(data, 8 * i - 3, 8 * i))

\* a component of a coordinate: n/(d*k), and 0 when d = 0
Component(data, i, k) ==
    IF DenAt(data, i) = 0 THEN Zero
    ELSE Float(FALSE, NumAt(data, i), DenAt(data, i) * k)

ExpectedMagnitude(data) ==
    FAdd(FAdd(Component(data, 1, 1), Component(data, 2, 60)),
         Component(data, 3, 3600))

SameMagnitude(x, y) == x.num = y.num /\ x.den = y.den

\* C5: a rational with denominator 0 counts as 0: the magnitude of each
\* coordinate is the sum of degrees, minutes/60 and seconds/3600 over the
\* components whose denominator is not 0, and computing a coordinate from a
\* value block of 24 bytes or more never fails.
C5_ZeroDenominator ==
    /\ (InTrace("COMPUTE_LAT") /\ Len(lat_data) >= 24) =>
          /\ ~(pc = "except" /\ LastStage = "COMPUTE_LAT")
          /\ pc # "except" => SameMagnitude(latitude, ExpectedMagnitude(lat_data))
    /\ (InTrace("COMPUTE_LON") /\ Len(lon_data) >= 24) =>
          /\ ~(pc = "except" /\ LastStage = "COMPUTE_LON")
          /\ pc # "except" => SameMagnitude(longitude, ExpectedMagnitude(lon_data))
    /\ result.kind = "pair" =>
          /\ SameMagnitude(result.lat, ExpectedMagnitude(lat_data))
          /\ SameMagnitude(result.lon, ExpectedMagnitude(lon_data))

\* C5 witness: a coordinate was returned whose latitude has a zero
\* denominator in one component and a non-zero value from the others
C5_Witness ==
    /\ pc = "done"
    /\ result.kind = "pair"
    /\ \E i \in 1..3 : DenAt(lat_data, i) = 0 /\ NumAt(lat_data, i) # 0
    /\ result.lat.num # 0

\* C6: a file whose first two bytes are not 0xFF 0xD8 (or that has fewer than
\* two bytes) is read once and never sought, and the result is None.
C6_NotJpegOneRead ==
    ~(Len(file) >= 2 /\ file[1] = 255 /\ file[2] = 216) =>
        /\ io.reads <= 1
        /\ io.seeks = 0
        /\ pc \in {"call", "open", "soi", "except", "done"}
        /\ pc = "done" => result = None

\* C6 witness: a file of other content was opened, read once and given up
C6_Witness ==
    /\ pc = "done"
    /\ Len(file) > 2
    /\ file[1] = 255 /\ file[2] # 216
    /\ io.opens = 1 /\ io.reads = 1 /\ io.seeks = 0
    /\ result = None

\* the extension of the path is ".jpg" or ".jpeg" in any letter case
JpegPath == LowerAll(SplitExt(filepath)) \in {<<".", "j", "p", "g">>,
                                              <<".", "j", "p", "e", "g">>}

\* C7: the file is opened and the decoder run only for a path whose
\* extension is ".jpg" or ".jpeg" in any letter case (and for each such path
\* it is); for every other path the result is None and nothing is opened,
\* read or sought.
C7_ExtensionDispatch ==
    /\ ~JpegPath =>
          /\ io = [opens |-> 0, reads |-> 0, seeks |-> 0]
          /\ trace = <<>>
          /\ pc \in {"call", "done"}
          /\ pc = "done" => result = None
    /\ (JpegPath /\ pc = "done") => io.opens = 1 /\ trace # <<>>

\* C7 witness: a ".png" path answered None without any file access
C7_Witness ==
    /\ pc = "done"
    /\ SplitExt(filepath) = <<".", "p", "n", "g">>
    /\ result = None
    /\ io.opens = 0 /\ io.reads = 0

\* the two bytes at the cursor, and the two after them
MarkerHere == Read(file, pos, 2)
LengthHere == Read(file, pos + 2, 2)

\* C8: in the scan loop, a two-byte marker that begins with 0xFF and is not
\* 0xFFE1, followed by a two-byte length, moves the cursor (length - 2) bytes
\* on from just after the length field and the scan goes on; a marker that
\* does not begin with 0xFF, or fewer than two bytes, ends the run with None;
\* the marker 0xFFE1 ends the scan, which is never entered again; and if the
\* six bytes after that segment's length field are not "Exif\0\0" the run
\* ends with None, whatever follows in the file.
C8_SegmentScanner ==
    [][/\ (pc = "scan" /\ Len(MarkerHere) = 2 /\ MarkerHere # APP1
              /\ MarkerHere[1] = 255 /\ Len(LengthHere) = 2) =>
           /\ pc' = "scan"
           /\ pos' = pos + 4 + (256 * LengthHere[1] + LengthHere[2] - 2)
           /\ result' = Pending
       /\ (pc = "scan" /\ (Len(MarkerHere) < 2 \/ MarkerHere[1] # 255)) =>
           /\ pc' = "done"
           /\ result' = None
       /\ (pc = "scan" /\ MarkerHere = APP1) => (pc' = "app1" /\ pos' = pos + 2)
       /\ (pc # "scan" /\ pc # "soi") => pc' # "scan"
       /\ (pc = "app1" /\ Len(MarkerHere) = 2 /\ Read(file, pos + 2, 6) # EXIF_HEADER) =>
           /\ pc' = "done"
           /\ result' = None
      ]_vars

\* an APP1 segment with the EXIF header starts at byte k of the file
ExifSegmentAt(k) == Read(file, k, 2) = APP1 /\ Read(file, k + 4, 6) = EXIF_HEADER

\* C8 witness: the first APP1 segment is not EXIF, a later one is, the scan
\* skipped nothing and the result is None
C8_Witness ==
    /\ pc = "done"
    /\ result = None
    /\ Read(file, 2, 2) = APP1
    /\ Read(file, 6, 6) # EXIF_HEADER
    /\ \E k \in 8..Len(file) : ExifSegmentAt(k) /\ Len(file) >= k + 128
    /\ io.reads = 4

\* C9: get_value returns the raw field unchanged when size <= 4 and
\* otherwise the size bytes at base_offset + offset; the cursor after the call
\* is the cursor before it.
C9_ValueResolver ==
    (gv.called /\ gv.ok) =>
        LET size == TypeSize(gv.type_id) * gv.count
            at == tiff_start + U32(endian, gv.raw)
        IN /\ size <= 4 => gv.data = gv.raw
           /\ size > 4 =>
                 /\ Len(gv.data) = size
                 /\ \A i \in 1..Len(gv.data) : gv.data[i] = file[at + i]
           /\ gv.pos_after = gv.pos_before
           /\ pos = gv.pos_before

\* the stages of C10 as the claim names them: the four resolutions are one
\* stage RESOLVE, the two computations one stage COMPUTE_SIGNED_COORDINATE
ClaimedStage(s) ==
    IF s \in {"RESOLVE_LAT", "RESOLVE_LAT_REF", "RESOLVE_LON", "RESOLVE_LON_REF"}
    THEN "RESOLVE"
    ELSE IF s \in {"COMPUTE_LAT", "COMPUTE_LON"} THEN "COMPUTE_SIGNED_COORDINATE"
    ELSE s

RECURSIVE ClaimedTrace(_)
ClaimedTrace(tr) ==
    IF tr = <<>> THEN <<>>
    ELSE Enter(ClaimedTrace(SubSeq(tr, 1, Len(tr) - 1)), ClaimedStage(tr[Len(tr)]))

ClaimedOrder ==
    <<"SEEK_SOI", "SEEK_APP1", "PARSE_TIFF", "PARSE_IFD0", "LOCATE_GPS_POINTER",
      "PARSE_GPS_IFD", "RESOLVE", "COMPUTE_SIGNED_COORDINATE", "DONE">>

\* the order the code keeps: a reference is resolved only when its tag is
\* in the GPS IFD
CodeOrder ==
    <<"SEEK_SOI", "SEEK_APP1", "PARSE_TIFF", "PARSE_IFD0", "LOCATE_GPS_POINTER",
      "PARSE_GPS_IFD", "RESOLVE_LAT", "COMPUTE_LAT">>
    \o (IF 1 \in DOMAIN gps_ifd THEN <<"RESOLVE_LAT_REF">> ELSE <<>>)
    \o <<"RESOLVE_LON", "COMPUTE_LON">>
    \o (IF 3 \in DOMAIN gps_ifd THEN <<"RESOLVE_LON_REF">> ELSE <<>>)
    \o <<"DONE">>

IsPrefix(a, b) == Len(a) <= Len(b) /\ SubSeq(b, 1, Len(a)) = a

\* tr follows order: a prefix of it, or a prefix of it (short of DONE)
\* followed by FAIL
FollowsOrder(tr, order) ==
    \/ IsPrefix(tr, order)
    \/ /\ tr # <<>>
       /\ tr[Len(tr)] = "FAIL"
       /\ Len(tr) >= 2
       /\ Len(tr) - 1 < Len(order)
       /\ IsPrefix(SubSeq(tr, 1, Len(tr) - 1), order)

C11_Termination ==
    /\ <>(pc = "done" /\ result.kind \in {"None", "pair"})
    /\ [](num_entries \in 0..65535)
    /\ [][/\ (pc = "scan" /\ pc' = "scan") => pos' >= pos + 2
          /\ (pc \in {"ifd0_loop", "gps_loop"} /\ pc' = pc) =>
                 (num_entries > 0 /\ num_entries' = num_entries - 1)
          /\ pc' = "ifd0" => pc = "tiff"
          /\ pc' = "ifd0_loop" => pc \in {"ifd0", "ifd0_loop"}
          /\ pc' = "gps" => pc = "gps_ptr"
          /\ pc' = "gps_loop" => pc \in {"gps", "gps_loop"}
          /\ pc = "done" => pc' = "done"
         ]_vars

\* C11 witness: a run that skipped a segment whose length field is 0 or 1
\* (the cursor went back) and ended
C11_Witness ==
    /\ pc = "done"
    /\ Read(file, 2, 2) = <<255, 224>>
    /\ Read(file, 4, 2) \in {<<0, 0>>, <<0, 1>>}
    /\ io.seeks = 1
    /\ pos \in {6, 7}
    /\ result = None

=============================================================================
